---- MODULE Spec2Model ----
(***************************************************************************)
(* ARIA email agent: the rule-based classifier and decision policy of      *)
(* aria_brain.py, and the SQLite persistence operations of aria_api.py,    *)
(* aria_parser.py and aria_brain.py (ARIA_Emails, ARIA_FollowUps,          *)
(* ARIA_AuditLog).                                                         *)
(***************************************************************************)
EXTENDS Integers, Sequences, FiniteSets, TLC

VARIABLES
    emails,     \* table ARIA_Emails, in rowid order
    followups,  \* table ARIA_FollowUps, in insertion order
    audit,      \* table ARIA_AuditLog, in insertion order
    subject,    \* the email text handed to the rule engine
    body,
    ret,        \* the last call: its name, its return value and the
                \* arguments the properties refer to
    procs       \* the API server and the parser while their saves run
                \* step by step: position, locals, the write lock

vars == <<emails, followups, audit, subject, body, ret, procs>>

None == "None"      \* Python None / SQL NULL

(***************************************************************************)
(* Strings.  A Python str is a TLA+ string; s[i] is SubSeq(s, i, i).       *)
(***************************************************************************)
Upper == "ABCDEFGHIJKLMNOPQRSTUVWXYZ"
Lower == "abcdefghijklmnopqrstuvwxyz"

CharAt(s, i) == SubSeq(s, i, i)

\* str.lower() on one character (ASCII letters; every other character of
\* the texts used here is left as it is, as Python leaves it)
UpperToLower ==
    [c \in {CharAt(Upper, i) : i \in 1..Len(Upper)} |->
        CharAt(Lower, CHOOSE i \in 1..Len(Upper) : CharAt(Upper, i) = c)]

LowerChar(c) == IF c \in DOMAIN UpperToLower THEN UpperToLower[c] ELSE c

RECURSIVE lower(_)
lower(s) ==
    IF Len(s) = 0 THEN ""
    ELSE IF Len(s) = 1 THEN LowerChar(s)
    ELSE LET half == Len(s) \div 2
         IN  lower(SubSeq(s, 1, half)) \o lower(SubSeq(s, half + 1, Len(s)))

\* Python's `kw in text` on two str values
Contains(text, kw) ==
    \E i \in 1..(Len(text) - Len(kw) + 1) : SubSeq(text, i, i + Len(kw) - 1) = kw

(***************************************************************************)
(* aria_brain.py: keyword rules engine                                     *)
(***************************************************************************)
CATEGORY_RULES == <<
    [category |-> "VENDOR_SECURITY", keywords |-> <<
        "security annex", "vendor", "supplier", "tprm", "third party",
        "risk assessment", "security review", "questionnaire", "saq",
        "penetration test", "pentest", "iso 27001", "soc2", "soc 2" >>],
    [category |-> "ESCALATION", keywords |-> <<
        "escalat", "urgent", "critical", "breach", "incident",
        "violation", "non-complian", "overdue", "immediate" >>],
    [category |-> "MEETING_REQUEST", keywords |-> <<
        "meeting", "call", "invite", "calendar", "schedule",
        "catch up", "sync", "teams call", "zoom" >>],
    [category |-> "LEGAL", keywords |-> <<
        "contract", "legal", "clause", "gdpr", "privacy",
        "data protection", "dpa", "agreement", "terms" >>],
    [category |-> "PROCUREMENT", keywords |-> <<
        "purchase", "procurement", "po ", "invoice", "budget",
        "cost", "payment", "sourcing" >>],
    [category |-> "TEAM_MANAGEMENT", keywords |-> <<
        "team", "my report", "direct report", "performance",
        "leave", "vacation", "pto", "absence" >>],
    [category |-> "NEWSLETTER", keywords |-> <<
        "unsubscribe", "newsletter", "digest", "weekly update",
        "monthly report", "bulletin", "no-reply", "noreply" >>],
    [category |-> "FOLLOW_UP_NEEDED", keywords |-> <<
        "follow up", "following up", "reminder", "pending",
        "still waiting", "no response", "chasing" >>],
    [category |-> "SPAM", keywords |-> <<
        "congratulations you won", "click here", "limited offer",
        "free gift", "act now", "verify your account" >>] >>

URGENCY_RULES == <<
    [urgency |-> 5, keywords |-> <<
        "breach", "incident", "critical", "immediate action",
        "escalat", "urgent", "asap", "today" >>],
    [urgency |-> 4, keywords |-> <<
        "overdue", "deadline", "by end of day", "eod",
        "non-complian", "violation", "pending approval" >>],
    [urgency |-> 3, keywords |-> <<
        "follow up", "reminder", "please review",
        "your input", "feedback needed" >>],
    [urgency |-> 2, keywords |-> <<
        "fyi", "for your information", "update",
        "newsletter", "digest" >>],
    [urgency |-> 1, keywords |-> <<
        "unsubscribe", "no-reply", "automatic", "noreply" >>] >>

\* any(kw in text for kw in keywords)
AnyKeyword(text, keywords) ==
    \E i \in 1..Len(keywords) : Contains(text, keywords[i])

\* text = (subject + " " + body).lower()
RuleText(s, b) == lower(s \o " " \o b)

\* the for loop of classify_category without its early return: the last
\* rule with a keyword in the text wins
RECURSIVE CategoryFrom_last_match(_, _)
CategoryFrom_last_match(text, i) ==
    IF i > Len(CATEGORY_RULES) THEN "ADMIN"
    ELSE CHOOSE c \in {IF later /= "ADMIN" THEN later
                       ELSE IF AnyKeyword(text, CATEGORY_RULES[i].keywords)
                            THEN CATEGORY_RULES[i].category
                            ELSE "ADMIN" :
                           later \in {CategoryFrom_last_match(text, i + 1)}} : TRUE

\* the for loop of classify_category from the i-th rule on
RECURSIVE CategoryFrom(_, _)
CategoryFrom(text, i) ==
    IF i > Len(CATEGORY_RULES) THEN "ADMIN"
    ELSE IF AnyKeyword(text, CATEGORY_RULES[i].keywords)
         THEN CATEGORY_RULES[i].category
         ELSE CategoryFrom(text, i + 1)

classify_category(s, b) == CategoryFrom(RuleText(s, b), 1)

\* the for loop of classify_urgency from the i-th rule on
RECURSIVE UrgencyFrom(_, _)
UrgencyFrom(text, i) ==
    IF i > Len(URGENCY_RULES) THEN 2
    ELSE IF AnyKeyword(text, URGENCY_RULES[i].keywords)
         THEN URGENCY_RULES[i].urgency
         ELSE UrgencyFrom(text, i + 1)

\* classify_urgency walking the levels upwards, 1 to 5
RECURSIVE UrgencyAscending(_, _)
UrgencyAscending(text, i) ==
    IF i < 1 THEN 2
    ELSE IF AnyKeyword(text, URGENCY_RULES[i].keywords)
         THEN URGENCY_RULES[i].urgency
         ELSE UrgencyAscending(text, i - 1)

classify_urgency_ascending(s, b) ==
    UrgencyAscending(RuleText(s, b), Len(URGENCY_RULES))

classify_urgency(s, b) == UrgencyFrom(RuleText(s, b), 1)

\* suggest_action with the category checks ahead of the urgency check
suggest_action_category_first(category, urgency) ==
    IF category \in {"NEWSLETTER", "SPAM"} THEN "ARCHIVE"
    ELSE IF category = "MEETING_REQUEST" THEN "SCHEDULE"
    ELSE IF category = "FOLLOW_UP_NEEDED" THEN "FOLLOW_UP"
    ELSE IF category \in {"TEAM_MANAGEMENT"} THEN "DELEGATE"
    ELSE "REPLY_NOW"

suggest_action(category, urgency) ==
    IF urgency >= 4 THEN "REPLY_NOW"
    ELSE IF category \in {"NEWSLETTER", "SPAM"} THEN "ARCHIVE"
    ELSE IF category = "MEETING_REQUEST" THEN "SCHEDULE"
    ELSE IF category = "FOLLOW_UP_NEEDED" THEN "FOLLOW_UP"
    ELSE IF category \in {"TEAM_MANAGEMENT"} THEN "DELEGATE"
    ELSE "REPLY_NOW"

\* requires_gabriela without LEGAL in the category list
requires_gabriela_no_legal(category, urgency) ==
    IF urgency >= 4 THEN TRUE
    ELSE IF category \in {"ESCALATION", "VENDOR_SECURITY"} THEN TRUE
    ELSE FALSE

requires_gabriela(category, urgency) ==
    IF urgency >= 4 THEN TRUE
    ELSE IF category \in {"ESCALATION", "VENDOR_SECURITY", "LEGAL"} THEN TRUE
    ELSE FALSE

\* the category enumeration of the analysis result
Categories == {"VENDOR_SECURITY", "TEAM_MANAGEMENT", "ESCALATION",
               "MEETING_REQUEST", "FYI_ONLY", "NEWSLETTER", "ADMIN", "LEGAL",
               "PROCUREMENT", "FOLLOW_UP_NEEDED", "SPAM"}

Urgencies == 1..5

(***************************************************************************)
(* generate_draft_reply picks a reply template by category and urgency, or *)
(* returns None.  A reply is the template filled with the sender's name    *)
(* and the subject; it is kept as the name of its template.                *)
(***************************************************************************)
generate_draft_reply(category, urgency) ==
    IF category = "MEETING_REQUEST" THEN [template |-> "MEETING_REQUEST"]
    ELSE IF category = "VENDOR_SECURITY" THEN [template |-> "VENDOR_SECURITY"]
    ELSE IF category = "ESCALATION" \/ urgency >= 4 THEN [template |-> "ESCALATION"]
    ELSE IF category \in {"NEWSLETTER", "SPAM"} THEN None
    ELSE [template |-> "DEFAULT"]

(***************************************************************************)
(* analyze_email: the derived fields of the record it returns.  Sender,    *)
(* ReceivedAt and ThreadID are copied from the arguments.                  *)
(***************************************************************************)
analyze_email(subj, bod) ==
    LET category == classify_category(subj, bod)
        urgency  == classify_urgency(subj, bod)
    IN  [Subject          |-> subj,
         Category         |-> category,
         Urgency          |-> urgency,
         SuggestedAction  |-> suggest_action(category, urgency),
         RequiresGabriela |-> requires_gabriela(category, urgency),
         DraftReply       |-> generate_draft_reply(category, urgency),
         DelegateTo       |-> None,
         FollowUpDate     |-> None,
         Status           |-> "PENDING"]

(***************************************************************************)
(* Inputs of the rule engine: a subject from a set of sample subjects and  *)
(* a body made of up to MaxBodyParts fragments joined by single spaces.    *)
(***************************************************************************)
MaxBodyParts == 2

Subjects == {
    "",
    "Security Annex Review Required",
    "URGENT: Data breach incident report needed immediately",
    "Your weekly cybersecurity digest is here",
    "Your PO" }

Fragments == {
    "Hello Gabriela",
    "this is URGENT",
    "our Security Annex",
    "please recall",
    "the Contract",
    "overdue Invoice",
    "my Team",
    "Unsubscribe at any time.",
    "This week in cybersecurity: top 10 threats, industry news, and more. Unsubscribe at any time.",
    "Following up, Please Review",
    "Click Here",
    "FYI" }

RECURSIVE BodiesOf(_)
BodiesOf(n) ==
    IF n = 0 THEN {""}
    ELSE LET shorter == BodiesOf(n - 1)
         IN  shorter \cup Fragments
                     \cup {b \o " " \o f : b \in shorter \ {""}, f \in Fragments}

Bodies == BodiesOf(MaxBodyParts)

NoCall == [op |-> "none"]

\* no save in progress: both processes between calls, the database unlocked
Quiet ==
    [api    |-> [pc |-> "idle", data |-> None, email_id |-> 0, resp |-> "none"],
     parser |-> [pc |-> "idle", batch |-> <<>>, i |-> 0, saved |-> 0,
                 resp |-> "none"],
     lock   |-> None,
     staged |-> None]

(***************************************************************************)
(* The classifier applied to the current (subject, body), and the decision *)
(* policy applied to any (category, urgency).  The functions are pure, so  *)
(* one call per behaviour covers every call.                               *)
(***************************************************************************)
InitClassifier ==
    /\ emails = <<>>
    /\ followups = <<>>
    /\ audit = <<>>
    /\ subject \in Subjects
    /\ body \in Bodies
    /\ ret = NoCall
    /\ procs = Quiet

CallClassifyCategory ==
    /\ ret = NoCall
    /\ ret' = [op |-> "classify_category", val |-> classify_category(subject, body)]
    /\ UNCHANGED <<emails, followups, audit, subject, body, procs>>

CallClassifyUrgency ==
    /\ ret = NoCall
    /\ ret' = [op |-> "classify_urgency", val |-> classify_urgency(subject, body)]
    /\ UNCHANGED <<emails, followups, audit, subject, body, procs>>

CallAnalyzeEmail ==
    /\ ret = NoCall
    /\ \E res \in {analyze_email(subject, body)} :
           ret' = [op |-> "analyze_email", val |-> res]
    /\ UNCHANGED <<emails, followups, audit, subject, body, procs>>

NextClassifier ==
    \/ CallClassifyCategory
    \/ CallClassifyUrgency
    \/ CallAnalyzeEmail

SpecClassifier == InitClassifier /\ [][NextClassifier]_vars

InitPolicy ==
    /\ emails = <<>>
    /\ followups = <<>>
    /\ audit = <<>>
    /\ subject = ""
    /\ body = ""
    /\ ret = NoCall
    /\ procs = Quiet

CallSuggestAction ==
    \E c \in Categories, u \in Urgencies :
        /\ ret = NoCall
        /\ ret' = [op |-> "suggest_action", category |-> c, urgency |-> u,
                   val |-> suggest_action(c, u)]
        /\ UNCHANGED <<emails, followups, audit, subject, body, procs>>

CallRequiresGabriela ==
    \E c \in Categories, u \in Urgencies :
        /\ ret = NoCall
        /\ ret' = [op |-> "requires_gabriela", category |-> c, urgency |-> u,
                   val |-> requires_gabriela(c, u)]
        /\ UNCHANGED <<emails, followups, audit, subject, body, procs>>

NextPolicy ==
    \/ CallSuggestAction
    \/ CallRequiresGabriela

SpecPolicy == InitPolicy /\ [][NextPolicy]_vars

(***************************************************************************)
(* The store: ARIA_Emails, ARIA_FollowUps and ARIA_AuditLog.  A row keeps  *)
(* the columns an operation reads or writes; the other columns of          *)
(* ARIA_Emails (ThreadID, BodyPreview, Category, Summary, SuggestedAction, *)
(* DelegateTo, DraftReply, KeyEntities, RequiresGabriela) are stored as    *)
(* given and never read back by a write.                                   *)
(***************************************************************************)
MaxWrites == 3      \* rows of ARIA_Emails plus calls of update_status
MaxBatch == 2       \* records in one save_emails batch

Statuses == {"PENDING", "DONE"}
NotesValues == {""}

\* the dict handed to a save: two senders with one subject, two emails of
\* each; every caller sets Status to "PENDING"
Payloads == {
    [Sender |-> "vendor@supplierco.com", Subject |-> "Security Annex Review",
     ReceivedAt |-> "2026-01-05T09:00:00", Urgency |-> 5,
     FollowUpDate |-> None, Status |-> "PENDING"],
    [Sender |-> "vendor@supplierco.com", Subject |-> "Security Annex Review",
     ReceivedAt |-> "2026-01-05T10:30:00", Urgency |-> 3,
     FollowUpDate |-> "2026-02-01", Status |-> "PENDING"],
    [Sender |-> "ceo.office@nestle.com", Subject |-> "Security Annex Review",
     ReceivedAt |-> "2026-01-05T10:30:00", Urgency |-> 5,
     FollowUpDate |-> "2026-02-01", Status |-> "PENDING"],
    [Sender |-> "ceo.office@nestle.com", Subject |-> "Security Annex Review",
     ReceivedAt |-> "2026-01-05T09:00:00", Urgency |-> 5,
     FollowUpDate |-> None, Status |-> "PENDING"] }

ReceivedAts == {d.ReceivedAt : d \in Payloads}

RECURSIVE BatchesOf(_)
BatchesOf(n) ==
    IF n = 0 THEN {<<>>}
    ELSE LET shorter == BatchesOf(n - 1)
         IN  shorter \cup {Append(b, d) : b \in shorter, d \in Payloads}

\* the batches a parse may hand to save_emails
Batches == BatchesOf(MaxBatch) \ {<<>>}

\* the three tables as one value
Db == [emails |-> emails, followups |-> followups, audit |-> audit]

\* Python truthiness of data.get("FollowUpDate")
Truthy(v) == v /= None /\ v /= ""

\* SELECT EmailID FROM ARIA_Emails WHERE Subject=? AND Sender=?  (fetchone)
Existing(rows, data) ==
    {i \in 1..Len(rows) :
        rows[i].Subject = data.Subject /\ rows[i].Sender = data.Sender}

\* cursor.lastrowid after the INSERT INTO ARIA_Emails: rows are never
\* deleted, so the new rowid is one more than the number of rows
LastRowId(rows) == Len(rows) + 1

\* INSERT INTO ARIA_Emails (...) VALUES (...): StatusUpdatedAt and Notes
\* are not among the inserted columns
InsertEmail(rows, data) ==
    Append(rows, [EmailID |-> LastRowId(rows),
                  Sender |-> data.Sender, Subject |-> data.Subject,
                  ReceivedAt |-> data.ReceivedAt, Urgency |-> data.Urgency,
                  FollowUpDate |-> data.FollowUpDate, Status |-> data.Status,
                  StatusUpdatedAt |-> None, Notes |-> None])

\* the INSERT INTO ARIA_FollowUps without the if around it
InsertFollowUp_unconditional(rows, email_id, data) ==
    Append(rows, [EmailID |-> email_id, FollowUpDate |-> data.FollowUpDate])

\* INSERT INTO ARIA_FollowUps (EmailID, FollowUpDate), under its if
InsertFollowUp(rows, email_id, data) ==
    IF Truthy(data.FollowUpDate)
    THEN Append(rows, [EmailID |-> email_id, FollowUpDate |-> data.FollowUpDate])
    ELSE rows

\* save_to_db without the lookup of an existing row
save_to_db_no_lookup(db, data) ==
    LET email_id == LastRowId(db.emails)
    IN  [db |-> [emails |-> InsertEmail(db.emails, data),
                 followups |-> InsertFollowUp(db.followups, email_id, data),
                 audit |-> Append(db.audit,
                     [EmailID |-> email_id, Action |-> "CREATED",
                      OldStatus |-> None, NewStatus |-> "PENDING"])],
         val |-> email_id]

\* aria_api.save_to_db: the new database and the returned id
save_to_db(db, data) ==
    IF Existing(db.emails, data) /= {}
    THEN [db |-> db, val |-> -1]
    ELSE LET email_id == LastRowId(db.emails)
         IN  [db |-> [emails |-> InsertEmail(db.emails, data),
                      followups |-> InsertFollowUp(db.followups, email_id, data),
                      audit |-> Append(db.audit,
                          [EmailID |-> email_id, Action |-> "CREATED",
                           OldStatus |-> None, NewStatus |-> "PENDING"])],
              val |-> email_id]

\* the for loop of aria_parser.save_emails from the i-th record on; the
\* lookup runs on the connection that made the earlier inserts
\* one pass of the loop body on a connection that sees db
SaveOne(db, data) ==
    IF Existing(db.emails, data) /= {}
    THEN [db |-> db, saved |-> 0]
    ELSE [db |-> [emails |-> InsertEmail(db.emails, data),
                  followups |-> InsertFollowUp(db.followups,
                                               LastRowId(db.emails), data),
                  audit |-> db.audit],
          saved |-> 1]

RECURSIVE SaveEmailsFrom(_, _, _, _)
SaveEmailsFrom(db, batch, i, saved) ==
    IF i > Len(batch) THEN [db |-> db, val |-> saved]
    ELSE CHOOSE out \in {SaveEmailsFrom(one.db, batch, i + 1, saved + one.saved) :
                            one \in {SaveOne(db, batch[i])}} : TRUE

\* aria_parser.save_emails: the new database and the number saved
save_emails(db, batch) == SaveEmailsFrom(db, batch, 1, 0)

\* aria_brain.save_email: the new database and the returned id
save_email(db, data) ==
    LET email_id == LastRowId(db.emails)
    IN  [db |-> [emails |-> InsertEmail(db.emails, data),
                 followups |-> InsertFollowUp(db.followups, email_id, data),
                 audit |-> db.audit],
         val |-> email_id]

\* the body of aria_api.update_status: the new database and the response
update_status(db, email_id, new_status, notes) ==
    LET old == {i \in 1..Len(db.emails) : db.emails[i].EmailID = email_id}
        old_status == IF old /= {}
                      THEN db.emails[CHOOSE i \in old : TRUE].Status
                      ELSE None
    IN  [db |-> [emails |-> [i \in 1..Len(db.emails) |->
                        IF db.emails[i].EmailID = email_id
                        THEN [db.emails[i] EXCEPT !.Status = new_status,
                                                  !.StatusUpdatedAt = "now",
                                                  !.Notes = notes]
                        ELSE db.emails[i]],
                 followups |-> db.followups,
                 audit |-> Append(db.audit,
                     [EmailID |-> email_id, Action |-> "STATUS_CHANGE",
                      OldStatus |-> old_status, NewStatus |-> new_status])],
         val |-> [status |-> "success", email_id |-> email_id,
                  new_status |-> new_status]]

\* the characters of a timestamp in the order of their codes: SQLite
\* compares TEXT values byte by byte
CodeOrder == "-0123456789:T"

CharCode == [c \in {CharAt(CodeOrder, i) : i \in 1..Len(CodeOrder)} |->
                CHOOSE i \in 1..Len(CodeOrder) : CharAt(CodeOrder, i) = c]

\* memcmp of two TEXT values from the i-th character on: -1, 0 or 1
RECURSIVE TextCompare(_, _, _)
TextCompare(a, b, i) ==
    IF i > Len(a) /\ i > Len(b) THEN 0
    ELSE IF i > Len(a) THEN -1
    ELSE IF i > Len(b) THEN 1
    ELSE IF CharCode[CharAt(a, i)] < CharCode[CharAt(b, i)] THEN -1
    ELSE IF CharCode[CharAt(a, i)] > CharCode[CharAt(b, i)] THEN 1
    ELSE TextCompare(a, b, i + 1)

\* TextCompare on the timestamps the payloads carry, computed once
CompareReceivedAt ==
    [a \in ReceivedAts |-> [b \in ReceivedAts |-> TextCompare(a, b, 1)]]

\* ORDER BY Urgency DESC, ReceivedAt ASC
ComesBefore_ascending_time(r1, r2) ==
    \/ r1.Urgency > r2.Urgency
    \/ r1.Urgency = r2.Urgency /\ CompareReceivedAt[r1.ReceivedAt][r2.ReceivedAt] < 0

\* ORDER BY Urgency DESC, ReceivedAt DESC: r1 has to come before r2
ComesBefore(r1, r2) ==
    \/ r1.Urgency > r2.Urgency
    \/ r1.Urgency = r2.Urgency /\ CompareReceivedAt[r1.ReceivedAt][r2.ReceivedAt] > 0

\* the sorter: r put into an ordered list, behind the rows it ties with
InsertOrdered(sorted, r) ==
    LET ahead == {k \in 1..Len(sorted) : ~ComesBefore(r, sorted[k])}
    IN  SubSeq(sorted, 1, Cardinality(ahead)) \o <<r>>
            \o SubSeq(sorted, Cardinality(ahead) + 1, Len(sorted))

\* the first n of rows in ORDER BY order
RECURSIVE OrderBy(_, _)
OrderBy(rows, n) ==
    IF n = 0 THEN <<>>
    ELSE CHOOSE out \in {InsertOrdered(sorted, rows[n]) :
                            sorted \in {OrderBy(rows, n - 1)}} : TRUE

\* the orders in which a scan may hand the rows of S to the sorter: SQL
\* leaves the order of rows that tie on every ORDER BY term open
RECURSIVE ScanOrders(_)
ScanOrders(S) ==
    IF S = {} THEN {<<>>}
    ELSE UNION {{<<i>> \o p : p \in ScanOrders(S \ {i})} : i \in S}

\* WHERE Status = 'PENDING'
PendingRows(rows) == {i \in 1..Len(rows) : rows[i].Status = "PENDING"}

\* aria_api.get_pending, the rows scanned in the order scan
Listing(sorted) ==
    [count |-> Len(sorted),
     emails |-> [i \in 1..Len(sorted) |->
                    [id |-> sorted[i].EmailID, sender |-> sorted[i].Sender,
                     subject |-> sorted[i].Subject, urgency |-> sorted[i].Urgency]]]

get_pending(rows, scan) ==
    CHOOSE listing \in {Listing(OrderBy(scanned, Len(scanned))) :
                            scanned \in {[i \in 1..Len(scan) |-> rows[scan[i]]]}} : TRUE

(***************************************************************************)
(* The requests and runs that reach the store, one at a time               *)
(***************************************************************************)
StatusChanges == {i \in 1..Len(audit) : audit[i].Action = "STATUS_CHANGE"}

\* the rows inserted and the status updates made so far
Writes == Len(emails) + Cardinality(StatusChanges)

Init ==
    /\ emails = <<>>
    /\ followups = <<>>
    /\ audit = <<>>
    /\ subject = ""
    /\ body = ""
    /\ ret = NoCall
    /\ procs = Quiet

Commit(res) ==
    /\ emails' = res.db.emails
    /\ followups' = res.db.followups
    /\ audit' = res.db.audit

\* POST /analyze, from the save on: data is what the request and the
\* model's answer make of the email
PostAnalyze ==
    \E data \in Payloads :
        \E res \in {save_to_db(Db, data)} :
            /\ res.val /= -1 => Writes < MaxWrites
            /\ Commit(res)
            /\ ret' = [op |-> "analyze", sender |-> data.Sender,
                       subject |-> data.Subject, email_id |-> res.val,
                       status |-> IF res.val = -1 THEN "duplicate" ELSE "success"]
            /\ UNCHANGED <<subject, body, procs>>

\* POST /analyze when the model call or the parse of its answer raises
PostAnalyzeError ==
    /\ ret' = [op |-> "analyze", status |-> "error"]
    /\ UNCHANGED <<emails, followups, audit, subject, body, procs>>

\* aria_parser.process_aria_output, from save_emails on
ParserSaveEmails ==
    \E batch \in Batches :
        \E res \in {save_emails(Db, batch)} :
            /\ Len(res.db.emails) + Cardinality(StatusChanges) <= MaxWrites
            /\ Commit(res)
            /\ ret' = [op |-> "save_emails", val |-> res.val]
            /\ UNCHANGED <<subject, body, procs>>

\* aria_brain.save_email
BrainSaveEmail ==
    \E data \in Payloads :
        \E res \in {save_email(Db, data)} :
            /\ Writes < MaxWrites
            /\ Commit(res)
            /\ ret' = [op |-> "save_email", val |-> res.val]
            /\ UNCHANGED <<subject, body, procs>>

\* POST /status
PostStatus ==
    \E email_id \in 1..(Len(emails) + 1), new_status \in Statuses, notes \in NotesValues :
        \E res \in {update_status(Db, email_id, new_status, notes)} :
            /\ Writes < MaxWrites
            /\ Commit(res)
            /\ ret' = [op |-> "status", email_id |-> email_id,
                       new_status |-> new_status, val |-> res.val]
            /\ UNCHANGED <<subject, body, procs>>

\* GET /pending
GetPending ==
    \E scan \in ScanOrders(PendingRows(emails)) :
        /\ ret' = [op |-> "pending", val |-> get_pending(emails, scan)]
        /\ UNCHANGED <<emails, followups, audit, subject, body, procs>>

Next ==
    \/ PostAnalyze
    \/ PostAnalyzeError
    \/ ParserSaveEmails
    \/ BrainSaveEmail
    \/ PostStatus
    \/ GetPending

Spec == Init /\ [][Next]_vars

(***************************************************************************)
(* The saves of two processes on one database file, statement by           *)
(* statement.  The API server handles one request at a time (its handlers  *)
(* are coroutines that never await), the parser runs in a process of its   *)
(* own.  Each connection is in sqlite3's default mode: a SELECT reads the  *)
(* committed database (and the connection's own uncommitted rows), the     *)
(* first INSERT opens a transaction and takes the write lock, commit()     *)
(* publishes the rows and releases it.  An INSERT that finds the lock      *)
(* taken waits for it, and raises "database is locked" when the wait       *)
(* exceeds the connection's timeout.  A behaviour is one request to the    *)
(* API and one run of the parser, on a database that is empty or holds one *)
(* record saved by an earlier request.                                     *)
(***************************************************************************)

\* an INSERT INTO ARIA_Emails that leaves the table alone when the
\* (Sender, Subject) pair is stored
SaveToDbInserts_if_absent(db, data) ==
    LET email_id == LastRowId(db.emails)
    IN  IF Existing(db.emails, data) /= {}
        THEN [db |-> db, val |-> email_id]
        ELSE [db |-> [emails |-> InsertEmail(db.emails, data),
                      followups |-> InsertFollowUp(db.followups, email_id, data),
                      audit |-> Append(db.audit,
                          [EmailID |-> email_id, Action |-> "CREATED",
                           OldStatus |-> None, NewStatus |-> "PENDING"])],
              val |-> email_id]

\* the INSERTs of save_to_db, after its lookup found nothing: the
\* connection's new view and cursor.lastrowid
SaveToDbInserts(db, data) ==
    LET email_id == LastRowId(db.emails)
    IN  [db |-> [emails |-> InsertEmail(db.emails, data),
                 followups |-> InsertFollowUp(db.followups, email_id, data),
                 audit |-> Append(db.audit,
                     [EmailID |-> email_id, Action |-> "CREATED",
                      OldStatus |-> None, NewStatus |-> "PENDING"])],
         val |-> email_id]

\* the INSERTs of one pass of save_emails' loop, after its lookup found
\* nothing
SaveEmailsInserts(db, data) ==
    [emails |-> InsertEmail(db.emails, data),
     followups |-> InsertFollowUp(db.followups, LastRowId(db.emails), data),
     audit |-> db.audit]

\* what a connection reads: the committed tables, or its own transaction
View(who) == IF procs.lock = who THEN procs.staged ELSE Db

\* the databases a behaviour starts from
Stored == {[emails |-> <<>>, followups |-> <<>>, audit |-> <<>>]}
              \cup {SaveToDbInserts([emails |-> <<>>, followups |-> <<>>,
                                     audit |-> <<>>], data).db : data \in Payloads}

InitRace ==
    /\ \E db \in Stored :
           /\ emails = db.emails
           /\ followups = db.followups
           /\ audit = db.audit
    /\ subject = ""
    /\ body = ""
    /\ ret = NoCall
    /\ procs = Quiet

\* save_to_db up to its lookup: return -1 on a stored pair, else go on
ApiSelect ==
    \E data \in Payloads :
        /\ procs.api.pc = "idle"
        /\ procs' = [procs EXCEPT !.api =
               IF Existing(emails, data) /= {}
               THEN [pc |-> "done", data |-> data, email_id |-> -1,
                     resp |-> "duplicate"]
               ELSE [pc |-> "insert", data |-> data, email_id |-> 0,
                     resp |-> "none"]]
        /\ UNCHANGED <<emails, followups, audit, subject, body, ret>>

\* the INSERTs of save_to_db, in a transaction that holds the write lock
ApiInsert ==
    /\ procs.api.pc = "insert"
    /\ procs.lock = None
    /\ \E res \in {SaveToDbInserts(Db, procs.api.data)} :
           procs' = [procs EXCEPT !.api.pc = "commit", !.api.email_id = res.val,
                                  !.lock = "api", !.staged = res.db]
    /\ UNCHANGED <<emails, followups, audit, subject, body, ret>>

\* the INSERT of save_to_db gives up waiting for the lock: the exception
\* reaches the route's handler, which answers with an error
ApiBusy ==
    /\ procs.api.pc = "insert"
    /\ procs.lock = "parser"
    /\ procs' = [procs EXCEPT !.api.pc = "done", !.api.resp = "error"]
    /\ UNCHANGED <<emails, followups, audit, subject, body, ret>>

\* conn.commit() of save_to_db and the return of email_id
ApiCommit ==
    /\ procs.api.pc = "commit"
    /\ emails' = procs.staged.emails
    /\ followups' = procs.staged.followups
    /\ audit' = procs.staged.audit
    /\ procs' = [procs EXCEPT !.api.pc = "done", !.api.resp = "success",
                              !.lock = None, !.staged = None]
    /\ UNCHANGED <<subject, body, ret>>

\* save_emails is called with a batch
ParserCall ==
    \E batch \in Batches :
        /\ procs.parser.pc = "idle"
        /\ procs' = [procs EXCEPT !.parser =
               [pc |-> "select", batch |-> batch, i |-> 1, saved |-> 0,
                resp |-> "none"]]
        /\ UNCHANGED <<emails, followups, audit, subject, body, ret>>

\* the position after the i-th record of the batch is dealt with
AfterRecord(parser) ==
    IF parser.i + 1 > Len(parser.batch) THEN "commit" ELSE "select"

\* the lookup of the loop body: continue on a stored pair, else go on
ParserSelect ==
    /\ procs.parser.pc = "select"
    /\ LET parser == procs.parser
       IN  procs' = [procs EXCEPT !.parser =
               IF Existing(View("parser").emails, parser.batch[parser.i]) /= {}
               THEN [parser EXCEPT !.pc = AfterRecord(parser), !.i = @ + 1]
               ELSE [parser EXCEPT !.pc = "insert"]]
    /\ UNCHANGED <<emails, followups, audit, subject, body, ret>>

\* the INSERTs of the loop body and saved += 1
ParserInsert ==
    /\ procs.parser.pc = "insert"
    /\ procs.lock \in {None, "parser"}
    /\ \E db \in {SaveEmailsInserts(View("parser"),
                                    procs.parser.batch[procs.parser.i])} :
           procs' = [procs EXCEPT
                        !.parser = [procs.parser EXCEPT
                                       !.pc = AfterRecord(procs.parser),
                                       !.i = @ + 1, !.saved = @ + 1],
                        !.lock = "parser", !.staged = db]
    /\ UNCHANGED <<emails, followups, audit, subject, body, ret>>

\* the INSERT of the loop body gives up waiting for the lock: save_emails
\* raises, nothing of the batch is committed
ParserBusy ==
    /\ procs.parser.pc = "insert"
    /\ procs.lock = "api"
    /\ procs' = [procs EXCEPT !.parser.pc = "done", !.parser.resp = "error"]
    /\ UNCHANGED <<emails, followups, audit, subject, body, ret>>

\* conn.commit() after the loop and the return of saved
ParserCommit ==
    /\ procs.parser.pc = "commit"
    /\ IF procs.lock = "parser"
       THEN /\ emails' = procs.staged.emails
            /\ followups' = procs.staged.followups
            /\ audit' = procs.staged.audit
            /\ procs' = [procs EXCEPT !.parser.pc = "done",
                                      !.parser.resp = "saved",
                                      !.lock = None, !.staged = None]
       ELSE /\ procs' = [procs EXCEPT !.parser.pc = "done",
                                      !.parser.resp = "saved"]
            /\ UNCHANGED <<emails, followups, audit>>
    /\ UNCHANGED <<subject, body, ret>>

NextRace ==
    \/ ApiSelect
    \/ ApiInsert
    \/ ApiBusy
    \/ ApiCommit
    \/ ParserCall
    \/ ParserSelect
    \/ ParserInsert
    \/ ParserBusy
    \/ ParserCommit

SpecRace == InitRace /\ [][NextRace]_vars

(***************************************************************************)
(* Properties of the store                                                 *)
(***************************************************************************)
RowsWith(rows, sender, subj) ==
    {i \in 1..Len(rows) : rows[i].Sender = sender /\ rows[i].Subject = subj}

RowsWithId(rows, id) == {i \in 1..Len(rows) : rows[i].EmailID = id}

AuditEntries(id, action) ==
    {k \in 1..Len(audit) : audit[k].EmailID = id /\ audit[k].Action = action}

\* C1: after any sequence of saves through save_to_db, save_emails and
\* save_email, run one after the other, ARIA_Emails never holds two rows
\* with the same (Sender, Subject) pair.
NoTwoRowsShareSenderSubject ==
    \A i, j \in 1..Len(emails) :
        (emails[i].Sender = emails[j].Sender /\ emails[i].Subject = emails[j].Subject)
            => i = j

\* C2: a save_to_db of a record whose (Sender, Subject) is that of a row in
\* the store returns -1, which /analyze reports as "duplicate" and which is
\* no success id, and leaves the email rows, the follow-up rows and the
\* audit log as they were; a save that finds no such row succeeds with an
\* id other than -1; so the second of two saves of a pair leaves one row.
DuplicateSaveWritesNothing ==
    [][(ret'.op = "analyze" /\ ret'.status /= "error") =>
        /\ RowsWith(emails, ret'.sender, ret'.subject) /= {} =>
            /\ ret'.email_id = -1
            /\ ret'.status = "duplicate"
            /\ emails' = emails
            /\ followups' = followups
            /\ audit' = audit
        /\ RowsWith(emails, ret'.sender, ret'.subject) = {} =>
            /\ ret'.email_id >= 1
            /\ ret'.status = "success"
        /\ Cardinality(RowsWith(emails, ret'.sender, ret'.subject)) <= 1 =>
            Cardinality(RowsWith(emails', ret'.sender, ret'.subject)) = 1
      ]_vars

SecondSaveReportedDuplicate ==
    /\ ret.op = "analyze"
    /\ ret.status = "duplicate"
    /\ ret.email_id = -1
    /\ Cardinality(RowsWith(emails, ret.sender, ret.subject)) = 1
    /\ AuditEntries(emails[1].EmailID, "CREATED") /= {}

\* C3: update_status with an identifier that matches no row does not report
\* success, and the store holds no audit entry for that identifier.
UpdateOfMissingIdIsNotFound ==
    (ret.op = "status" /\ RowsWithId(emails, ret.email_id) = {}) =>
        /\ ret.val.status /= "success"
        /\ \A k \in 1..Len(audit) : audit[k].EmailID /= ret.email_id

\* C4: every row of ARIA_Emails has exactly one audit entry with Action
\* CREATED and NewStatus PENDING, whichever save made the row, and a row
\* whose status was updated has a STATUS_CHANGE entry.
AuditLogComplete ==
    \A i \in 1..Len(emails) :
        /\ Cardinality({k \in AuditEntries(emails[i].EmailID, "CREATED") :
                            audit[k].NewStatus = "PENDING"}) = 1
        /\ emails[i].StatusUpdatedAt /= None =>
               AuditEntries(emails[i].EmailID, "STATUS_CHANGE") /= {}

FollowUpsOf(id) == {k \in 1..Len(followups) : followups[k].EmailID = id}

\* the rows of ARIA_Emails a step has added that carry a FollowUpDate
NewDatedRows ==
    {i \in (Len(emails) + 1)..Len(emails') : emails'[i].FollowUpDate /= None}

\* C5: every save that inserts a record inserts one FollowUp row (the new
\* EmailID, the FollowUpDate) if the record has a FollowUpDate and none if
\* it has not; no step changes or removes a FollowUp row; so a record has
\* one FollowUp row if it was saved with a FollowUpDate and none otherwise.
OneFollowUpPerDatedRecord ==
    /\ [](\A i \in 1..Len(emails) :
            /\ Cardinality(FollowUpsOf(emails[i].EmailID)) =
                   (IF emails[i].FollowUpDate /= None THEN 1 ELSE 0)
            /\ \A k \in FollowUpsOf(emails[i].EmailID) :
                   followups[k].FollowUpDate = emails[i].FollowUpDate)
    /\ [](\A k \in 1..Len(followups) : RowsWithId(emails, followups[k].EmailID) /= {})
    /\ [][/\ Len(followups') = Len(followups) + Cardinality(NewDatedRows)
          /\ SubSeq(followups', 1, Len(followups)) = followups]_vars

DatedAndUndatedRecordSaved ==
    /\ \E i \in 1..Len(emails) :
           /\ emails[i].FollowUpDate /= None
           /\ Cardinality(FollowUpsOf(emails[i].EmailID)) = 1
    /\ \E i \in 1..Len(emails) :
           /\ emails[i].FollowUpDate = None
           /\ FollowUpsOf(emails[i].EmailID) = {}
    /\ ret.op \in {"analyze", "save_emails"}

\* the row of ARIA_Emails a listed email stands for
RowOf(listed) == emails[CHOOSE i \in 1..Len(emails) : emails[i].EmailID = listed.id]

\* C6: GET /pending returns exactly the rows whose Status is "PENDING", each
\* once, by Urgency descending and, among equal urgencies, by ReceivedAt
\* descending.
PendingListedInOrder ==
    ret.op = "pending" =>
        /\ ret.val.count = Len(ret.val.emails)
        /\ {ret.val.emails[k].id : k \in 1..Len(ret.val.emails)} =
               {emails[i].EmailID : i \in PendingRows(emails)}
        /\ Len(ret.val.emails) = Cardinality(PendingRows(emails))
        /\ \A k \in 1..Len(ret.val.emails) :
               /\ RowOf(ret.val.emails[k]).Status = "PENDING"
               /\ ret.val.emails[k].sender = RowOf(ret.val.emails[k]).Sender
               /\ ret.val.emails[k].subject = RowOf(ret.val.emails[k]).Subject
               /\ ret.val.emails[k].urgency = RowOf(ret.val.emails[k]).Urgency
        /\ \A k, m \in 1..Len(ret.val.emails) :
               k < m =>
                   \/ RowOf(ret.val.emails[k]).Urgency > RowOf(ret.val.emails[m]).Urgency
                   \/ /\ RowOf(ret.val.emails[k]).Urgency = RowOf(ret.val.emails[m]).Urgency
                      /\ TextCompare(RowOf(ret.val.emails[k]).ReceivedAt,
                                     RowOf(ret.val.emails[m]).ReceivedAt, 1) >= 0

MoreUrgentListedBeforeMoreRecent ==
    /\ ret.op = "pending"
    /\ Len(ret.val.emails) = 2
    /\ RowOf(ret.val.emails[1]).Urgency = 5
    /\ RowOf(ret.val.emails[2]).Urgency = 3
    /\ TextCompare(RowOf(ret.val.emails[1]).ReceivedAt,
                   RowOf(ret.val.emails[2]).ReceivedAt, 1) < 0

(***************************************************************************)
(* Properties of the rule engine                                           *)
(***************************************************************************)

\* C7: for every category and every urgency in 1..5, suggest_action returns
\* REPLY_NOW when urgency >= 4 whatever the category; otherwise ARCHIVE for
\* NEWSLETTER or SPAM, SCHEDULE for MEETING_REQUEST, FOLLOW_UP for
\* FOLLOW_UP_NEEDED, DELEGATE for TEAM_MANAGEMENT and REPLY_NOW for every
\* other category.
SuggestActionTable ==
    ret.op = "suggest_action" =>
        /\ ret.urgency >= 4 => ret.val = "REPLY_NOW"
        /\ ret.urgency < 4 =>
            /\ ret.category \in {"NEWSLETTER", "SPAM"} => ret.val = "ARCHIVE"
            /\ ret.category = "MEETING_REQUEST" => ret.val = "SCHEDULE"
            /\ ret.category = "FOLLOW_UP_NEEDED" => ret.val = "FOLLOW_UP"
            /\ ret.category = "TEAM_MANAGEMENT" => ret.val = "DELEGATE"
            /\ ret.category \notin {"NEWSLETTER", "SPAM", "MEETING_REQUEST",
                                     "FOLLOW_UP_NEEDED", "TEAM_MANAGEMENT"}
                   => ret.val = "REPLY_NOW"

UrgentNewsletterRepliedNow ==
    /\ ret.op = "suggest_action"
    /\ ret.category = "NEWSLETTER"
    /\ ret.urgency = 5
    /\ ret.val = "REPLY_NOW"

\* C8: for every category and every urgency in 1..5, requires_gabriela is
\* true exactly when urgency >= 4 or the category is ESCALATION,
\* VENDOR_SECURITY or LEGAL; (PROCUREMENT, 2) gives false, (LEGAL, 1) true.
RequiresGabrielaIff ==
    ret.op = "requires_gabriela" =>
        /\ ret.val \in BOOLEAN
        /\ ret.val <=> (\/ ret.urgency >= 4
                        \/ ret.category \in {"ESCALATION", "VENDOR_SECURITY", "LEGAL"})
        /\ (ret.category = "PROCUREMENT" /\ ret.urgency = 2) => ret.val = FALSE
        /\ (ret.category = "LEGAL" /\ ret.urgency = 1) => ret.val = TRUE

LegalLowUrgencyRequiresGabriela ==
    /\ ret.op = "requires_gabriela"
    /\ ret.category = "LEGAL"
    /\ ret.urgency = 1
    /\ ret.val = TRUE

\* kw occurs as a substring of a text given with its letters folded to
\* lower case, the letter case of kw ignored too
OccursIgnoringCase(kw, folded) ==
    LET k == lower(kw)
    IN  \E i \in 0..(Len(folded) - Len(k)) : SubSeq(folded, i + 1, i + Len(k)) = k

ConcatenatedText == subject \o " " \o body

\* the order in which the rule table declares the categories
DeclarationOrder == <<"VENDOR_SECURITY", "ESCALATION", "MEETING_REQUEST", "LEGAL",
                      "PROCUREMENT", "TEAM_MANAGEMENT", "NEWSLETTER",
                      "FOLLOW_UP_NEEDED", "SPAM">>

KeywordsOfCategory(c) ==
    LET rule == CHOOSE r \in {CATEGORY_RULES[i] : i \in 1..Len(CATEGORY_RULES)} :
                    r.category = c
    IN  {rule.keywords[i] : i \in 1..Len(rule.keywords)}

\* positions in DeclarationOrder of the categories with a keyword in the text
MatchedCategoriesIn(folded) ==
    {i \in 1..Len(DeclarationOrder) :
        \E kw \in KeywordsOfCategory(DeclarationOrder[i]) :
            OccursIgnoringCase(kw, folded)}

MatchedCategories == MatchedCategoriesIn(lower(ConcatenatedText))

\* C9: classify_category returns, of the categories having a keyword that
\* occurs case-insensitively as a substring of the concatenated text, the
\* one declared earliest in the rule table, and ADMIN when there is none.
EarliestDeclared(matched) ==
    IF matched = {} THEN "ADMIN"
    ELSE DeclarationOrder[CHOOSE i \in matched : \A j \in matched : i <= j]

CategoryIsEarliestDeclaredMatch ==
    ret.op = "classify_category" => ret.val = EarliestDeclared(MatchedCategories)

SecurityAnnexBeatsUrgent ==
    /\ ret.op = "classify_category"
    /\ OccursIgnoringCase("security annex", lower(ConcatenatedText))
    /\ OccursIgnoringCase("urgent", lower(ConcatenatedText))
    /\ ret.val = "VENDOR_SECURITY"

KeywordsOfUrgency(u) ==
    LET rule == CHOOSE r \in {URGENCY_RULES[i] : i \in 1..Len(URGENCY_RULES)} :
                    r.urgency = u
    IN  {rule.keywords[i] : i \in 1..Len(rule.keywords)}

\* the urgency levels with a keyword in the text
MatchedLevelsIn(folded) ==
    {u \in 1..5 :
        \E kw \in KeywordsOfUrgency(u) : OccursIgnoringCase(kw, folded)}

MatchedLevels == MatchedLevelsIn(lower(ConcatenatedText))

\* C10: classify_urgency returns an integer in 1..5: the highest level with
\* a keyword occurring case-insensitively as a substring of the concatenated
\* text, and 2 when no level has one.
HighestLevel(matched) ==
    IF matched = {} THEN 2
    ELSE CHOOSE u \in matched : \A v \in matched : v <= u

UrgencyIsHighestMatch ==
    ret.op = "classify_urgency" =>
        /\ ret.val \in 1..5
        /\ ret.val = HighestLevel(MatchedLevels)

HighestOfSeveralLevels ==
    /\ ret.op = "classify_urgency"
    /\ {3, 4} \subseteq MatchedLevels
    /\ 5 \notin MatchedLevels
    /\ ret.val = 4

(***************************************************************************)
(* C11: analyze_email on the newsletter email (subject "Your weekly        *)
(* cybersecurity digest is here", a body containing "Unsubscribe at any    *)
(* time" and no other rule keyword) returns category NEWSLETTER, urgency   *)
(* 1, suggested action ARCHIVE and no draft reply.                         *)
(***************************************************************************)
NewsletterSubject == "Your weekly cybersecurity digest is here"

NewsletterBodies ==
    {"Unsubscribe at any time.",
     "This week in cybersecurity: top 10 threats, industry news, and more. Unsubscribe at any time."}

NewsletterScenario ==
    (ret.op = "analyze_email" /\ subject = NewsletterSubject /\ body \in NewsletterBodies)
        => /\ ret.val.Category = "NEWSLETTER"
           /\ ret.val.Urgency = 1
           /\ ret.val.SuggestedAction = "ARCHIVE"
           /\ ret.val.DraftReply = None

(***************************************************************************)
(* C12: the duplicate check is a check-then-act race.  When the request    *)
(* and the parser run save one (Sender, Subject) pair and both pass the    *)
(* lookup before either commits, both report the save and the store ends   *)
(* with two rows for the pair: a state in which both saves of one pair are *)
(* reported holds (at least) two rows for it.  A writer reports the save   *)
(* of a pair only if its lookup ran before any row of the pair was         *)
(* committed, so two reports mean both lookups preceded both commits.      *)
(***************************************************************************)
SamePair(a, b) == a.Sender = b.Sender /\ a.Subject = b.Subject

\* the request and the parser run have returned, each reporting the save
\* of its records, and the j-th record of the batch has the request's pair
BothReportSaved(j) ==
    /\ procs.api.resp = "success"
    /\ procs.parser.resp = "saved"
    /\ procs.parser.saved = Len(procs.parser.batch)
    /\ SamePair(procs.parser.batch[j], procs.api.data)

RacingSavesStoreThePairTwice ==
    \A j \in 1..Len(procs.parser.batch) :
        BothReportSaved(j) =>
            Cardinality(Existing(emails, procs.api.data)) >= 2

\* on an empty database both writers saved the one pair: two rows, one
\* with a CREATED audit entry (the request's) and one without (the parser's)
BothWritersSavedOnePair ==
    /\ Len(procs.parser.batch) = 1
    /\ BothReportSaved(1)
    /\ Len(emails) = 2
    /\ Existing(emails, procs.api.data) = {1, 2}
    /\ Len(audit) = 1

(***************************************************************************)
(* C13: for every record created by save_to_db, its audit entries in       *)
(* append order form a chain: the first is CREATED with NewStatus PENDING, *)
(* each later STATUS_CHANGE entry's OldStatus is the NewStatus of the      *)
(* entry before it, and the last entry's NewStatus is the record's Status. *)
(***************************************************************************)
AuditOf(email_id) == SelectSeq(audit, LAMBDA e : e.EmailID = email_id)

\* only save_to_db writes a CREATED entry
CreatedBySaveToDb(email_id) ==
    \E k \in 1..Len(audit) :
        audit[k].EmailID = email_id /\ audit[k].Action = "CREATED"

IsChain(entries, status) ==
    /\ entries[1].Action = "CREATED"
    /\ entries[1].NewStatus = "PENDING"
    /\ \A k \in 2..Len(entries) :
           entries[k].Action = "STATUS_CHANGE"
               => entries[k].OldStatus = entries[k - 1].NewStatus
    /\ entries[Len(entries)].NewStatus = status

AuditEntriesFormChain ==
    \A r \in 1..Len(emails) :
        CreatedBySaveToDb(emails[r].EmailID)
            => IsChain(AuditOf(emails[r].EmailID), emails[r].Status)

====
